---- MODULE Spec2Model ----
(***************************************************************************)
(* A model of src/simd.cpp: SimdMatrix<T, Rows, Cols>, a dense matrix      *)
(* stored column-major in SIMD batches of batch_size lanes.                *)
(*                                                                         *)
(* Arrays are functions on 0..n-1, so every index expression is the one    *)
(* the C++ code writes.  A matrix object is a record                       *)
(*   [Rows, Cols, data_]  with data_ : 0..num_batches-1 -> batch,          *)
(* and a batch is a function 0..batch_size-1 -> T.  T's arithmetic is      *)
(* exact integer arithmetic: the element values of the model are small     *)
(* integers, which float represents exactly and int does not overflow on.  *)
(*                                                                         *)
(* The objects of a run live in `heap`: a and b are the caller's two       *)
(* matrices (mat, mat2/mat3 in main), t is a temporary (a default-         *)
(* constructed matrix or a copy constructed from an exported buffer) and   *)
(* r is the local `result` that operator+ and operator* return by value.   *)
(* The initializer-list constructor delegates to the buffer constructor    *)
(* and is the same operation here.                                         *)
(***************************************************************************)
EXTENDS Integers, Sequences, FiniteSets, TLC

\* ------------------------------------------------------------- bounds
\* Rows of the left operand: multiples of batch_size in 1..MaxRows.
MaxRows == 4
\* Inner dimension (Cols of a, Rows of b): multiples of batch_size in 0..MaxInner.
MaxInner == 4
\* Cols of the right operand: 1..MaxCols.
MaxCols == 2
\* The caller's buffers are ramps seed, seed+step, seed+2*step, ...
MaxSeed == 1
Steps == {0, 1}
\* What a caller's output buffer may hold before an export writes it.
Stale == {0, 99}

Objs == {"a", "b", "t", "r"}

VARIABLES
    batch_size,   \* batch_t::size, fixed by the build
    dims,         \* the template arguments <Rows, Cols> of a and of b
    values,       \* the caller's row-major arrays the constructors read
    heap,         \* object name -> [Rows, Cols, data_]
    live,         \* the objects constructed so far
    pc,           \* "idle", "mul" (inside operator*) or "ub"
    call,         \* the last member function entered and its arguments
    retval,       \* what operator() returned
    out,          \* the caller's buffer an export wrote
    tkind,        \* how t was made: "none", "default", "copy" or "copy_col"
    mj, mk        \* operator*'s loop counters j and k

vars == <<batch_size, dims, values, heap, live, pc, call, retval, out, tkind, mj, mk>>

\* ------------------------------------------------------ the class layout
batches_per_col(Rows) == Rows \div batch_size

num_batches(Rows, Cols) == batches_per_col(Rows) * Cols

\* batch_t(T(v)): a batch with v in every lane.
batch_t(v) == [l \in 0..(batch_size - 1) |-> v]

\* std::vector<T>(n): n value-initialised elements.
vector(n) == [p \in 0..(n - 1) |-> 0]

\* An object that is not constructed.
NoMatrix == [Rows |-> 0, Cols |-> 0, data_ |-> <<>>]

\* ---------------------------------------------------------- constructors
\* DefaultCtor leaving data_ as it found it: whatever the storage held.
DefaultCtorUninit(Rows, Cols) ==
    [Rows |-> Rows, Cols |-> Cols,
     data_ |-> [b \in 0..(num_batches(Rows, Cols) - 1) |-> batch_t(99)]]

DefaultCtor(Rows, Cols) ==
    [Rows |-> Rows, Cols |-> Cols,
     data_ |-> [b \in 0..(num_batches(Rows, Cols) - 1) |-> batch_t(0)]]

\* xsimd::load_unaligned(&col_data[p]): batch_size consecutive elements.
load_unaligned(col_data, p) == [l \in 0..(batch_size - 1) |-> col_data[p + l]]

\* The loop nest of the constructor, n iterations done: i outer, j inner.
RECURSIVE TransposeIn(_, _, _, _, _)
TransposeIn(col_data, vals, Rows, Cols, n) ==
    IF n >= Rows * Cols THEN col_data
    ELSE LET i == n \div Cols
             j == n % Cols
         IN  TransposeIn([col_data EXCEPT ![j * Rows + i] = vals[i * Cols + j]],
                         vals, Rows, Cols, n + 1)

\* ValuesCtor loading the batches from the caller's row-major buffer itself.
ValuesCtorNoTranspose(Rows, Cols, vals) ==
    [Rows |-> Rows, Cols |-> Cols,
     data_ |-> [b \in 0..(num_batches(Rows, Cols) - 1) |->
                   load_unaligned(vals, b * batch_size)]]

ValuesCtor(Rows, Cols, vals) ==
    LET col_data == TransposeIn(vector(Rows * Cols), vals, Rows, Cols, 0)
    IN  [Rows |-> Rows, Cols |-> Cols,
         data_ |-> [b \in 0..(num_batches(Rows, Cols) - 1) |->
                       load_unaligned(col_data, b * batch_size)]]

\* ------------------------------------------------------- element access
\* The flat column-major index of element (i, j).
flat_idx(Rows, i, j) == j * Rows + i

\* operator()(i, j)
at(m, i, j) ==
    LET idx == flat_idx(m.Rows, i, j)
        batch_idx == idx \div batch_size
        offset == idx % batch_size
        tmp == m.data_[batch_idx]
    IN  tmp[offset]

\* ------------------------------------------------------------- exports
\* The loop nest of export_to_col_major, n iterations done: b outer, i inner.
RECURSIVE StoreBatches(_, _, _)
StoreBatches(m, o, n) ==
    IF n >= num_batches(m.Rows, m.Cols) * batch_size THEN o
    ELSE LET b == n \div batch_size
             i == n % batch_size
             tmp == m.data_[b]
         IN  StoreBatches(m, [o EXCEPT ![b * batch_size + i] = tmp[i]], n + 1)

export_to_col_major(m, o) == StoreBatches(m, o, 0)

\* The loop nest of export_to_row_major, n iterations done: i outer, j inner.
RECURSIVE TransposeOut(_, _, _, _, _)
TransposeOut(o, col_data, Rows, Cols, n) ==
    IF n >= Rows * Cols THEN o
    ELSE LET i == n \div Cols
             j == n % Cols
         IN  TransposeOut([o EXCEPT ![i * Cols + j] = col_data[j * Rows + i]],
                          col_data, Rows, Cols, n + 1)

\* export_to_row_major without its transposition.
export_to_row_major_flat(m, o) == export_to_col_major(m, o)

export_to_row_major(m, o) ==
    LET col_data == export_to_col_major(m, vector(m.Rows * m.Cols))
    IN  TransposeOut(o, col_data, m.Rows, m.Cols, 0)

\* ------------------------------------------------------------ operator+
\* Lane-wise batch + batch and batch * batch.
batch_add(p, q) == [l \in 0..(batch_size - 1) |-> p[l] + q[l]]

batch_mul(p, q) == [l \in 0..(batch_size - 1) |-> p[l] * q[l]]

\* operator+ adding data_[i] to itself instead of to other.data_[i].
operator_plus_self(m, other) ==
    LET result == DefaultCtor(m.Rows, m.Cols)
    IN  [result EXCEPT !.data_ =
            [i \in 0..(num_batches(m.Rows, m.Cols) - 1) |->
                batch_add(m.data_[i], m.data_[i])]]

operator_plus(m, other) ==
    LET result == DefaultCtor(m.Rows, m.Cols)
    IN  [result EXCEPT !.data_ =
            [i \in 0..(num_batches(m.Rows, m.Cols) - 1) |->
                batch_add(m.data_[i], other.data_[i])]]

\* ------------------------------------------------------------ operator*
\* SimdMatrix<T, Rows, OtherCols> result; then every batch set to zero.
\* MulInit starting the accumulators at one instead of zero.
MulInitOnes(Rows, OtherCols) ==
    LET result == DefaultCtor(Rows, OtherCols)
    IN  [result EXCEPT !.data_ = [b \in DOMAIN result.data_ |-> batch_t(1)]]

MulInit(Rows, OtherCols) ==
    LET result == DefaultCtor(Rows, OtherCols)
    IN  [result EXCEPT !.data_ = [b \in DOMAIN result.data_ |-> batch_t(0)]]

\* a_offset counting rows instead of batches.
a_offset_rows(k, Rows) == k * Rows

a_offset(k, Rows) == k * batches_per_col(Rows)

\* c_offset without the batches-per-column factor.
c_offset_unscaled(j, Rows) == j

c_offset(j, Rows) == j * batches_per_col(Rows)

\* Accumulate with = in place of +=.
RECURSIVE AccumulateAssign(_, _, _, _, _, _, _)
AccumulateAssign(res_data, m_data, scalar_pack, a_off, c_off, bpc, b) ==
    IF b >= bpc THEN res_data
    ELSE AccumulateAssign(
            [res_data EXCEPT ![c_off + b] = batch_mul(m_data[a_off + b], scalar_pack)],
            m_data, scalar_pack, a_off, c_off, bpc, b + 1)

\* The innermost loop, b iterations done:
\* result.data_[c_offset + b] += data_[a_offset + b] * scalar_pack.
RECURSIVE Accumulate(_, _, _, _, _, _, _)
Accumulate(res_data, m_data, scalar_pack, a_off, c_off, bpc, b) ==
    IF b >= bpc THEN res_data
    ELSE Accumulate(
            [res_data EXCEPT ![c_off + b] =
                batch_add(@, batch_mul(m_data[a_off + b], scalar_pack))],
            m_data, scalar_pack, a_off, c_off, bpc, b + 1)

\* MulBody taking the terms highest k first.
MulBodyReversed(result, m, other, j, k) ==
    LET scalar == at(other, m.Cols - 1 - k, j)
        scalar_pack == batch_t(scalar)
    IN  [result EXCEPT !.data_ =
            Accumulate(result.data_, m.data_, scalar_pack,
                       a_offset(m.Cols - 1 - k, m.Rows), c_offset(j, m.Rows),
                       batches_per_col(m.Rows), 0)]

\* The body of the k loop for one (j, k).
MulBody(result, m, other, j, k) ==
    LET scalar == at(other, k, j)
        scalar_pack == batch_t(scalar)
    IN  [result EXCEPT !.data_ =
            Accumulate(result.data_, m.data_, scalar_pack,
                       a_offset(k, m.Rows), c_offset(j, m.Rows),
                       batches_per_col(m.Rows), 0)]

\* std::array<batch_t, num_batches>: the valid indices of data are its domain.
InRange(data, idx) == idx \in DOMAIN data

\* Every index the body for (j, k) uses is inside the array it indexes.
BodyInRange(result, m, other, j, k) ==
    /\ InRange(other.data_, flat_idx(other.Rows, k, j) \div batch_size)
    /\ \A b \in 0..(batches_per_col(m.Rows) - 1) :
          /\ InRange(m.data_, a_offset(k, m.Rows) + b)
          /\ InRange(result.data_, c_offset(j, m.Rows) + b)

\* StoreResult for operators that update *this in place and return it.
StoreResultInPlace(h, this, result) == [h EXCEPT ![this] = result, !["r"] = result]

\* operator+ and operator* build a local `result` and return it by value:
\* the only object written is r.
StoreResult(h, this, result) == [h EXCEPT !["r"] = result]

\* ---------------------------------------------------------- the inputs
Ramp(n, seed, step) == [p \in 0..(n - 1) |-> seed + step * p]

Buffers(n) == {Ramp(n, seed, step) : seed \in 0..MaxSeed, step \in Steps}

NoCall == [op |-> "none", x |-> "-", y |-> "-", i |-> 0, j |-> 0]

Init ==
    /\ batch_size \in 1..MaxRows
    /\ \E R \in 1..MaxRows, K \in 0..MaxInner, C \in 1..MaxCols :
          /\ R % batch_size = 0
          /\ K % batch_size = 0
          /\ dims = [a |-> <<R, K>>, b |-> <<K, C>>]
          /\ values \in [a : Buffers(R * K), b : Buffers(K * C)]
    /\ heap = [o \in Objs |-> NoMatrix]
    /\ live = {}
    /\ pc = "idle"
    /\ call = NoCall
    /\ retval = 0
    /\ out = <<>>
    /\ tkind = "none"
    /\ mj = 0
    /\ mk = 0

\* A new call starts from a clean frame: nothing of the previous call's
\* temporaries, result, return value or output buffer is kept.
Frame(h) == [h EXCEPT !["t"] = NoMatrix, !["r"] = NoMatrix]

\* SimdMatrix<T, Rows, Cols> mat(data): a first, then b, as main does.
Construct ==
    /\ pc = "idle"
    /\ \E o \in {"a", "b"} :
          /\ o \notin live
          /\ o = "b" => "a" \in live
          /\ heap' = [heap EXCEPT ![o] = ValuesCtor(dims[o][1], dims[o][2], values[o])]
          /\ live' = live \cup {o}
          /\ call' = [NoCall EXCEPT !.op = "construct", !.x = o]
    /\ UNCHANGED <<batch_size, dims, values, pc, retval, out, tkind, mj, mk>>

\* mat(i, j)
At ==
    /\ pc = "idle"
    /\ {"a", "b"} \subseteq live
    /\ \E x \in {"a", "b"} :
       \E i \in 0..(heap[x].Rows - 1), j \in 0..(heap[x].Cols - 1) :
          /\ retval' = at(heap[x], i, j)
          /\ call' = [NoCall EXCEPT !.op = "at", !.x = x, !.i = i, !.j = j]
    /\ heap' = Frame(heap)
    /\ live' = {"a", "b"}
    /\ out' = <<>>
    /\ tkind' = "none"
    /\ UNCHANGED <<batch_size, dims, values, pc, mj, mk>>

\* mat.export_to_col_major(out)
ExportCol ==
    /\ pc = "idle"
    /\ {"a", "b"} \subseteq live
    /\ \E x \in {"a", "b"}, fill \in Stale :
          /\ out' = export_to_col_major(heap[x],
                        [p \in 0..(heap[x].Rows * heap[x].Cols - 1) |-> fill])
          /\ call' = [NoCall EXCEPT !.op = "export_to_col_major", !.x = x]
    /\ heap' = Frame(heap)
    /\ live' = {"a", "b"}
    /\ retval' = 0
    /\ tkind' = "none"
    /\ UNCHANGED <<batch_size, dims, values, pc, mj, mk>>

\* mat.export_to_row_major(out)
ExportRow ==
    /\ pc = "idle"
    /\ {"a", "b"} \subseteq live
    /\ \E x \in {"a", "b"}, fill \in Stale :
          /\ out' = export_to_row_major(heap[x],
                        [p \in 0..(heap[x].Rows * heap[x].Cols - 1) |-> fill])
          /\ call' = [NoCall EXCEPT !.op = "export_to_row_major", !.x = x]
    /\ heap' = Frame(heap)
    /\ live' = {"a", "b"}
    /\ retval' = 0
    /\ tkind' = "none"
    /\ UNCHANGED <<batch_size, dims, values, pc, mj, mk>>

\* SimdMatrix<T, Rows, Cols> t(out), out the buffer an export of x just wrote:
\* read as row-major, whichever export wrote it.
Reimport ==
    /\ pc = "idle"
    /\ call.op \in {"export_to_row_major", "export_to_col_major"}
    /\ heap' = [Frame(heap) EXCEPT
                   !["t"] = ValuesCtor(heap[call.x].Rows, heap[call.x].Cols, out)]
    /\ live' = {"a", "b", "t"}
    /\ tkind' = IF call.op = "export_to_row_major" THEN "copy" ELSE "copy_col"
    /\ call' = [NoCall EXCEPT !.op = "construct_copy", !.x = call.x]
    /\ retval' = 0
    /\ UNCHANGED <<batch_size, dims, values, pc, out, mj, mk>>

\* SimdMatrix<T, Rows, Cols> t; of the shape of a or of b.
Default ==
    /\ pc = "idle"
    /\ {"a", "b"} \subseteq live
    /\ \E x \in {"a", "b"} :
          /\ heap' = [Frame(heap) EXCEPT
                         !["t"] = DefaultCtor(heap[x].Rows, heap[x].Cols)]
          /\ call' = [NoCall EXCEPT !.op = "default", !.x = x]
    /\ live' = {"a", "b", "t"}
    /\ tkind' = "default"
    /\ retval' = 0
    /\ out' = <<>>
    /\ UNCHANGED <<batch_size, dims, values, pc, mj, mk>>

\* x + y for two live matrices of one type; a temporary that is an operand
\* outlives the call, any other is gone.
Add ==
    /\ pc = "idle"
    /\ {"a", "b"} \subseteq live
    /\ \E x \in live \ {"r"}, y \in live \ {"r"} :
          /\ heap[x].Rows = heap[y].Rows
          /\ heap[x].Cols = heap[y].Cols
          /\ LET keep == "t" \in {x, y}
                 h == IF keep THEN [heap EXCEPT !["r"] = NoMatrix] ELSE Frame(heap)
             IN  /\ heap' = StoreResult(h, x, operator_plus(heap[x], heap[y]))
                 /\ live' = IF keep THEN {"a", "b", "t", "r"} ELSE {"a", "b", "r"}
                 /\ tkind' = IF keep THEN tkind ELSE "none"
          /\ call' = [NoCall EXCEPT !.op = "operator+", !.x = x, !.y = y]
    /\ retval' = 0
    /\ out' = <<>>
    /\ UNCHANGED <<batch_size, dims, values, pc, mj, mk>>

\* x * y is entered: result is constructed and zeroed, j = 0, k = 0.
MulBegin ==
    /\ pc = "idle"
    /\ {"a", "b"} \subseteq live
    /\ \E x \in {"a", "b"}, y \in {"a", "b"} :
          /\ heap[x].Cols = heap[y].Rows
          /\ heap' = StoreResult(Frame(heap), x, MulInit(heap[x].Rows, heap[y].Cols))
          /\ call' = [NoCall EXCEPT !.op = "operator*", !.x = x, !.y = y]
    /\ live' = {"a", "b", "r"}
    /\ pc' = "mul"
    /\ mj' = 0
    /\ mk' = 0
    /\ tkind' = "none"
    /\ retval' = 0
    /\ out' = <<>>
    /\ UNCHANGED <<batch_size, dims, values>>

\* One pass of the k loop's body.  An index outside its array is undefined
\* behaviour: the run is then in "ub", of which nothing is known.
MulStep ==
    /\ pc = "mul"
    /\ mj < heap[call.y].Cols
    /\ mk < heap[call.x].Cols
    /\ IF BodyInRange(heap["r"], heap[call.x], heap[call.y], mj, mk)
       THEN /\ heap' = StoreResult(heap, call.x,
                           MulBody(heap["r"], heap[call.x], heap[call.y], mj, mk))
            /\ mk' = mk + 1
            /\ pc' = "mul"
       ELSE /\ pc' = "ub"
            /\ UNCHANGED <<heap, mk>>
    /\ UNCHANGED <<batch_size, dims, values, live, call, retval, out, tkind, mj>>

\* The k loop ends (k = Cols): ++j, k = 0.
MulNextCol ==
    /\ pc = "mul"
    /\ mj < heap[call.y].Cols
    /\ ~(mk < heap[call.x].Cols)
    /\ mj' = mj + 1
    /\ mk' = 0
    /\ UNCHANGED <<batch_size, dims, values, heap, live, pc, call, retval, out, tkind>>

\* The j loop ends (j = OtherCols): return result.
MulReturn ==
    /\ pc = "mul"
    /\ ~(mj < heap[call.y].Cols)
    /\ pc' = "idle"
    /\ mj' = 0
    /\ mk' = 0
    /\ UNCHANGED <<batch_size, dims, values, heap, live, call, retval, out, tkind>>

Next ==
    \/ Construct
    \/ At
    \/ ExportCol
    \/ ExportRow
    \/ Reimport
    \/ Default
    \/ Add
    \/ MulBegin
    \/ MulStep
    \/ MulNextCol
    \/ MulReturn

Spec == Init /\ [][Next]_vars

\* ------------------------------------------------------------ reference
\* The reference triple loop on the row-major inputs, its first n terms:
\* sum over k < n of vx[i][k] * vy[k][j], vx of K columns, vy of C columns.
RECURSIVE PartialDot(_, _, _, _, _, _, _)
PartialDot(vx, vy, i, j, K, C, n) ==
    IF n = 0 THEN 0
    ELSE PartialDot(vx, vy, i, j, K, C, n - 1) + vx[i * K + (n - 1)] * vy[(n - 1) * C + j]

\* The sum of row i of the row-major buffer vx of K columns.
RECURSIVE RowSum(_, _, _, _)
RowSum(vx, i, K, n) ==
    IF n = 0 THEN 0 ELSE RowSum(vx, i, K, n - 1) + vx[i * K + (n - 1)]

AllEqual(buf, v) == \A p \in DOMAIN buf : buf[p] = v

ZeroMatrix(m) == \A b \in DOMAIN m.data_ : \A l \in DOMAIN m.data_[b] : m.data_[b][l] = 0

HasShape(m, Rows, Cols) ==
    /\ m.Rows = Rows
    /\ m.Cols = Cols
    /\ DOMAIN m.data_ = 0..((Rows \div batch_size) * Cols - 1)
    /\ \A b \in DOMAIN m.data_ : DOMAIN m.data_[b] = 0..(batch_size - 1)

Cells(m) == (0..(m.Rows - 1)) \X (0..(m.Cols - 1))

Returned(op) == pc = "idle" /\ call.op = op

\* --------------------------------------------------------------- claims

\* C1: a matrix constructed from a row-major buffer returns, for every
\* (i, j) in range, the value the buffer held at i*Cols + j; and so does
\* every call of operator() that was made.
C1_ElementAccess ==
    /\ \A o \in {"a", "b"} \cap live :
          /\ HasShape(heap[o], dims[o][1], dims[o][2])
          /\ \A c \in Cells(heap[o]) :
                at(heap[o], c[1], c[2]) = values[o][c[1] * heap[o].Cols + c[2]]
    /\ Returned("at") =>
          retval = values[call.x][call.i * heap[call.x].Cols + call.j]

\* operator() has returned element (3, 1) of a 4 x 2 matrix of two-lane
\* batches built from the ramp 1, 2, ..., 8.
C1_Witness ==
    /\ Returned("at")
    /\ call.x = "a" /\ call.i = 3 /\ call.j = 1
    /\ batch_size = 2
    /\ dims["a"] = <<4, 2>>
    /\ values["a"] = Ramp(8, 1, 1)
    /\ retval = 8

\* C2: when operator* returns, result(i, j) is the reference triple loop's
\* sum over k of A(i, k) * B(k, j), for every i and j, and result has the
\* shape Rows x OtherCols.
C2_MultiplyIsProduct ==
    Returned("operator*") =>
        LET x == call.x
            y == call.y
        IN  /\ HasShape(heap["r"], heap[x].Rows, heap[y].Cols)
            /\ \A c \in Cells(heap["r"]) :
                  at(heap["r"], c[1], c[2]) =
                      PartialDot(values[x], values[y], c[1], c[2],
                                 heap[x].Cols, heap[y].Cols, heap[x].Cols)

\* a (4 x 4, the ramp 1..16) times b (4 x 2, the ramp 1..8) has returned,
\* with two-lane batches; element (3, 1) is 13*2 + 14*4 + 15*6 + 16*8.
C2_Witness ==
    /\ Returned("operator*")
    /\ call.x = "a" /\ call.y = "b"
    /\ batch_size = 2
    /\ dims = [a |-> <<4, 4>>, b |-> <<4, 2>>]
    /\ values = [a |-> Ramp(16, 1, 1), b |-> Ramp(8, 1, 1)]
    /\ at(heap["r"], 3, 1) = 300

\* C3: the matrix constructed from the buffer export_to_row_major wrote is
\* the exported matrix, element by element and batch by batch; and the
\* buffer export_to_col_major wrote holds M(i, j) at j*Rows + i.
C3_RoundTrip ==
    /\ (Returned("construct_copy") /\ tkind = "copy") =>
          /\ HasShape(heap["t"], heap[call.x].Rows, heap[call.x].Cols)
          /\ \A c \in Cells(heap[call.x]) :
                at(heap["t"], c[1], c[2]) = at(heap[call.x], c[1], c[2])
          /\ heap["t"].data_ = heap[call.x].data_
    /\ Returned("export_to_col_major") =>
          /\ DOMAIN out = 0..(heap[call.x].Rows * heap[call.x].Cols - 1)
          /\ \A c \in Cells(heap[call.x]) :
                out[c[2] * heap[call.x].Rows + c[1]] = at(heap[call.x], c[1], c[2])

\* A 4 x 2 matrix of two-lane batches, built from the ramp 1..8, was
\* exported row-major and a copy constructed from that buffer.
C3_Witness ==
    /\ Returned("construct_copy")
    /\ tkind = "copy"
    /\ call.x = "a"
    /\ batch_size = 2
    /\ dims["a"] = <<4, 2>>
    /\ values["a"] = Ramp(8, 1, 1)
    /\ out = Ramp(8, 1, 1)
    /\ at(heap["t"], 3, 0) = 7

\* C4: when operator* returns and one operand is all zeros, result is the
\* all-zero matrix of shape Rows x OtherCols; with an inner dimension of 0
\* both operands are empty, hence all zeros, and the same holds.
C4_Annihilation ==
    Returned("operator*") =>
        LET x == call.x
            y == call.y
        IN  (AllEqual(values[x], 0) \/ AllEqual(values[y], 0) \/ heap[x].Cols = 0) =>
                /\ HasShape(heap["r"], heap[x].Rows, heap[y].Cols)
                /\ ZeroMatrix(heap["r"])
                /\ \A c \in Cells(heap["r"]) : at(heap["r"], c[1], c[2]) = 0

\* a (4 x 2, the ramp 1..8) times the all-zero b (2 x 2) has returned.
C4_Witness ==
    /\ Returned("operator*")
    /\ call.x = "a" /\ call.y = "b"
    /\ batch_size = 2
    /\ dims = [a |-> <<4, 2>>, b |-> <<2, 2>>]
    /\ values = [a |-> Ramp(8, 1, 1), b |-> Ramp(4, 0, 0)]
    /\ ZeroMatrix(heap["r"])

\* C5: when operator+ returns, result(i, j) = A(i, j) + B(i, j) for every
\* i and j, and batch b of result is batch b of A plus batch b of B, lane
\* by lane; for operands built from buffers, that is the sum of the
\* buffers' values at i*Cols + j.
C5_AddIsElementwise ==
    Returned("operator+") =>
        LET x == call.x
            y == call.y
            r == heap["r"]
        IN  /\ HasShape(r, heap[x].Rows, heap[x].Cols)
            /\ \A c \in Cells(r) :
                  at(r, c[1], c[2]) = at(heap[x], c[1], c[2]) + at(heap[y], c[1], c[2])
            /\ \A b \in DOMAIN r.data_ : \A l \in 0..(batch_size - 1) :
                  r.data_[b][l] = heap[x].data_[b][l] + heap[y].data_[b][l]
            /\ ({x, y} \subseteq {"a", "b"}) =>
                  \A c \in Cells(r) :
                     at(r, c[1], c[2]) = values[x][c[1] * r.Cols + c[2]]
                                         + values[y][c[1] * r.Cols + c[2]]

\* a (4 x 2, the ramp 1..8) plus a matrix of the same shape built from a's
\* column-major export (1, 3, 5, 7, 2, 4, 6, 8 read as row-major) has
\* returned: element (1, 0) is 3 + 5.
C5_Witness ==
    /\ Returned("operator+")
    /\ call.x = "a" /\ call.y = "t"
    /\ tkind = "copy_col"
    /\ batch_size = 2
    /\ dims["a"] = <<4, 2>>
    /\ values["a"] = Ramp(8, 1, 1)
    /\ at(heap["t"], 1, 0) = 5
    /\ at(heap["r"], 1, 0) = 8

\* C6: a default-constructed matrix is zero in every element (every lane
\* of every batch), and M + default() is M, element by element.
C6_ZeroIdentity ==
    /\ ("t" \in live /\ tkind = "default") =>
          /\ HasShape(heap["t"], heap[call.x].Rows, heap[call.x].Cols)
          /\ ZeroMatrix(heap["t"])
          /\ \A c \in Cells(heap["t"]) : at(heap["t"], c[1], c[2]) = 0
    /\ (Returned("operator+") /\ tkind = "default" /\ call.y = "t") =>
          /\ HasShape(heap["r"], heap[call.x].Rows, heap[call.x].Cols)
          /\ \A c \in Cells(heap[call.x]) :
                at(heap["r"], c[1], c[2]) = at(heap[call.x], c[1], c[2])
          /\ call.x \in {"a", "b"} =>
                \A c \in Cells(heap[call.x]) :
                   at(heap["r"], c[1], c[2]) =
                       values[call.x][c[1] * heap[call.x].Cols + c[2]]

\* a (4 x 2, the ramp 1..8) plus a default-constructed 4 x 2 matrix has
\* returned.
C6_Witness ==
    /\ Returned("operator+")
    /\ call.x = "a" /\ call.y = "t"
    /\ tkind = "default"
    /\ batch_size = 2
    /\ dims["a"] = <<4, 2>>
    /\ values["a"] = Ramp(8, 1, 1)
    /\ at(heap["r"], 3, 1) = 8

\* C7: when operator* returns and the right operand is the K x 1 column of
\* ones, result(i, 0) is the sum of row i of A; for A the 4 x 4 ramp 1..16
\* the result is 10, 26, 42, 58.
C7_RowSums ==
    Returned("operator*") =>
        LET x == call.x
            y == call.y
            r == heap["r"]
        IN  (heap[y].Cols = 1 /\ AllEqual(values[y], 1)) =>
                /\ HasShape(r, heap[x].Rows, 1)
                /\ \A i \in 0..(heap[x].Rows - 1) :
                      at(r, i, 0) = RowSum(values[x], i, heap[x].Cols, heap[x].Cols)
                /\ (heap[x].Rows = 4 /\ values[x] = Ramp(16, 1, 1)) =>
                      <<at(r, 0, 0), at(r, 1, 0), at(r, 2, 0), at(r, 3, 0)>>
                          = <<10, 26, 42, 58>>

\* The 4 x 4 ramp 1..16 times the column (1, 1, 1, 1) has returned, with
\* four-lane batches as for float on SSE.
C7_Witness ==
    /\ Returned("operator*")
    /\ call.x = "a" /\ call.y = "b"
    /\ batch_size = 4
    /\ dims = [a |-> <<4, 4>>, b |-> <<4, 1>>]
    /\ values = [a |-> Ramp(16, 1, 1), b |-> Ramp(4, 1, 0)]
    /\ at(heap["r"], 3, 0) = 58

\* What one step may do to the objects: a constructed a or b is not changed,
\* and a step of operator+ or of operator* (its entry and every pass of its
\* loops) leaves both operands as they were and has a result object r that
\* is neither operand.
C8_Step ==
    /\ \A o \in {"a", "b"} \cap live : heap'[o] = heap[o]
    /\ call'.op \in {"operator+", "operator*"} =>
          /\ heap'[call'.x] = heap[call'.x]
          /\ heap'[call'.y] = heap[call'.y]
          /\ "r" \notin {call'.x, call'.y}
          /\ "r" \in live'

\* C8: value semantics: after any sequence of calls, no step of operator+,
\* operator*, operator() or an export changes a batch of a or b or of an
\* operand, and the result is an object of its own, not an operand.
C8_ValueSemantics == [][C8_Step]_vars

\* a * a has returned for the 4 x 4 ramp 1..16, both operands the same
\* object, and a still holds what its constructor stored.
C8_Witness ==
    /\ Returned("operator*")
    /\ call.x = "a" /\ call.y = "a"
    /\ dims["a"] = <<4, 4>>
    /\ values["a"] = Ramp(16, 1, 1)
    /\ heap["a"] = ValuesCtor(4, 4, values["a"])
    /\ at(heap["r"], 0, 0) = 90
    /\ heap["r"] # heap["a"]

\* C9: inside operator*, at loop position (j, k): every column before j
\* holds its final value (all K terms), column j holds the sum of the terms
\* 0..k-1 in that order, and every column after j is zero.  At entry
\* (j = 0, k = 0) the result is therefore all zeros.
C9_AccumulationOrder ==
    pc = "mul" =>
        LET x == call.x
            y == call.y
            K == heap[x].Cols
            C == heap[y].Cols
        IN  /\ mj \in 0..C
            /\ mk \in 0..K
            /\ HasShape(heap["r"], heap[x].Rows, C)
            /\ \A c \in Cells(heap["r"]) :
                  at(heap["r"], c[1], c[2]) =
                      IF c[2] < mj THEN PartialDot(values[x], values[y], c[1], c[2], K, C, K)
                      ELSE IF c[2] = mj THEN PartialDot(values[x], values[y], c[1], c[2], K, C, mk)
                      ELSE 0

\* Inside a (4 x 4 ramp 1..16) times b (4 x 2 ramp 1..8): column 0 is done,
\* two of the four terms of column 1 are added (1*2 + 2*4 in row 0).
C9_Witness ==
    /\ pc = "mul"
    /\ call.x = "a" /\ call.y = "b"
    /\ mj = 1 /\ mk = 2
    /\ batch_size = 2
    /\ dims = [a |-> <<4, 4>>, b |-> <<4, 2>>]
    /\ values = [a |-> Ramp(16, 1, 1), b |-> Ramp(8, 1, 1)]
    /\ at(heap["r"], 0, 0) = 50
    /\ at(heap["r"], 0, 1) = 10

\* C10: operator* never indexes outside an array: at every loop position
\* (j, k) with a body to run, for every b < Rows/W, the A batch index
\* k*(Rows/W) + b is below (Rows/W)*K, the result batch index j*(Rows/W) + b
\* is below (Rows/W)*C, and B(k, j) resolves to a batch index below (K/W)*C
\* and an offset below W; these limits are the sizes of the arrays.
C10_IndexSafety ==
    /\ pc # "ub"
    /\ (pc = "mul" /\ mj < heap[call.y].Cols /\ mk < heap[call.x].Cols) =>
          LET R == heap[call.x].Rows
              K == heap[call.x].Cols
              C == heap[call.y].Cols
              W == batch_size
              idx == flat_idx(heap[call.y].Rows, mk, mj)
          IN  /\ R % W = 0 /\ K % W = 0 /\ heap[call.y].Rows = K
              /\ \A b \in 0..(batches_per_col(R) - 1) :
                    /\ a_offset(mk, R) + b >= 0
                    /\ a_offset(mk, R) + b < (R \div W) * K
                    /\ c_offset(mj, R) + b >= 0
                    /\ c_offset(mj, R) + b < (R \div W) * C
              /\ idx \div W >= 0
              /\ idx \div W < (K \div W) * C
              /\ idx % W < W
              /\ DOMAIN heap[call.x].data_ = 0..((R \div W) * K - 1)
              /\ DOMAIN heap["r"].data_ = 0..((R \div W) * C - 1)
              /\ DOMAIN heap[call.y].data_ = 0..((K \div W) * C - 1)

\* The last body of a (4 x 4) times b (4 x 2) with two-lane batches is
\* about to run: it uses the highest indices, 3*2 + 1 of 8 batches of a
\* and 1*2 + 1 of 4 batches of the result.
C10_Witness ==
    /\ pc = "mul"
    /\ call.x = "a" /\ call.y = "b"
    /\ batch_size = 2
    /\ dims = [a |-> <<4, 4>>, b |-> <<4, 2>>]
    /\ mj = 1 /\ mk = 3
    /\ a_offset(mk, 4) + 1 = 7
    /\ c_offset(mj, 4) + 1 = 3

====
